---------------------------- MODULE Spec2Model ----------------------------
(***************************************************************************)
(* Rocket.Chat.Audit: the oplog tailer (Auditor), the room resolver        *)
(* (RocketChat), the audit handler calls and the supervisor loop of main,  *)
(* as a state machine.                                                     *)
(*                                                                         *)
(* Python values are written as follows.  A dict is a TLA+ record (a       *)
(* function on strings), so  'k' in d  is  "k" \in DOMAIN d  and d['k'] on *)
(* a missing key raises KeyError.  A value of a slot that holds either a   *)
(* string, a tuple or None is a tagged record (Str, Tuple, None).  A       *)
(* namespace is the sequence of its dot-separated tokens.                  *)
(***************************************************************************)
EXTENDS Integers, Sequences, FiniteSets, TLC

VARIABLES
    oplog,              \* client.local.oplog.rs: the entries, oldest first
    pc,                 \* main's position: "try", "tail", "sleep", "except"
    resume_ts,          \* the ts argument of Auditor.tail
    cursor_pos,         \* ts of the last entry the cursor of tail returned
    room_cache,         \* RocketChat.room_cache
    rc_message_cache,   \* RocketChat.message_cache
    message_cache,      \* Auditor.message_cache
    handler_calls,      \* every call made on the AuditHandler, in order
    last,               \* what the last _parse invocation did
    parsed,             \* the entries _parse was called on, in order
    prev_attempt,       \* how the previous tail_latest ended
    sleeps,             \* time.sleep calls since the last tail_latest ended
    uses                \* every c[k] and c[k] = v done on a cache, in order

vars == <<oplog, pc, resume_ts, cursor_pos, room_cache, rc_message_cache,
          message_cache, handler_calls, last, parsed, prev_attempt, sleeps,
          uses>>

---------------------------------------------------------------------------
(* Bounds of the model. *)

\* entries Rocket.Chat writes to the oplog in one behaviour
MaxOplog == 2
\* maxsize of RocketChat.room_cache (a constructor parameter)
room_cache_size == 2
\* maxsize of the two message caches (a constructor parameter)
message_cache_size == 2

---------------------------------------------------------------------------
(* Python values. *)

None == [pytype |-> "NoneType"]
Str(s) == [pytype |-> "str", v |-> s]
Tuple(s) == [pytype |-> "tuple", v |-> s]

IsNone(x) == "pytype" \in DOMAIN x /\ x.pytype = "NoneType"

\* str() of the timestamps of the model
str(t) ==
    CASE t = 1 -> "1" [] t = 2 -> "2" [] t = 3 -> "3" [] t = 4 -> "4"
      [] OTHER -> "0"

\* sep.join(items)
RECURSIVE join(_, _)
join(sep, items) ==
    IF Len(items) = 0 THEN ""
    ELSE IF Len(items) = 1 THEN items[1]
    ELSE items[1] \o sep \o join(sep, Tail(items))

\* ns.endswith(suffix), on token sequences
endswith(ns, suffix) ==
    /\ Len(suffix) <= Len(ns)
    /\ SubSeq(ns, Len(ns) - Len(suffix) + 1, Len(ns)) = suffix

rocketchat_message == <<"rocketchat_message">>

---------------------------------------------------------------------------
(* LRUCache: the entries <<key, value>> in order of use, the least         *)
(* recently used first.                                                    *)

CacheKeys(c) == {c[i].k : i \in 1..Len(c)}

CacheIndex(c, k) == CHOOSE i \in 1..Len(c) : c[i].k = k

CacheRemove(c, k) ==
    LET keep(e) == e.k # k IN SelectSeq(c, keep)

\* c[k] on a key that is present: the value; the key becomes the most recent
CacheValue(c, k) == c[CacheIndex(c, k)].v

\* CacheTouch of a cache whose reads leave the order of use alone
CacheTouch_no_refresh(c, k) == c

CacheTouch(c, k) == Append(CacheRemove(c, k), c[CacheIndex(c, k)])

\* c[k] = v: the key becomes the most recent, the least recent ones leave
\* while the cache is over maxsize
CachePut(c, k, v, maxsize) ==
    LET put == Append(CacheRemove(c, k), [k |-> k, v |-> v])
    IN  IF Len(put) > maxsize
        THEN SubSeq(put, Len(put) - maxsize + 1, Len(put))
        ELSE put

---------------------------------------------------------------------------
(* The rocketchat_room collection. *)

rooms ==
    { [_id |-> "GENERAL", t |-> "c", name |-> "general"],
      [_id |-> "dm1", t |-> "d", usernames |-> <<"alice", "bob">>],
      [_id |-> "dm2", t |-> "d", usernames |-> <<"bob", "alice", "carol">>],
      [_id |-> "lc1", t |-> "l"] }

\* rooms.find_one({"_id": room_id}): the document, or None
find_one(room_id) ==
    IF \E r \in rooms : r._id = room_id
    THEN CHOOSE r \in rooms : r._id = room_id
    ELSE None


---------------------------------------------------------------------------
(* Exceptions: the name of the exception a call raised, NoException when   *)
(* it returned.                                                            *)

NoException == "-"

\* The result of a cached method: what it raised or returned, the cache
\* afterwards, and the find_one queries it sent
Returned(value, cache, lookups) ==
    [raised |-> NoException, value |-> value, cache |-> cache,
     lookups |-> lookups]

Raised(exc, cache, lookups) ==
    [raised |-> exc, value |-> None, cache |-> cache, lookups |-> lookups]

---------------------------------------------------------------------------
(* RocketChat. *)

\* room_name_of with the participants of a direct message joined last first
room_name_of_reversed(room) ==
    IF "_id" \notin DOMAIN room
    THEN [raised |-> "TypeError", value |-> None]
    ELSE IF "name" \in DOMAIN room
    THEN [raised |-> NoException, value |-> Str(room.name)]
    ELSE IF room.t = "d"
    THEN [raised |-> NoException,
          value |-> Str(join("_x_", [i \in 1..Len(room.usernames) |->
                        room.usernames[Len(room.usernames) - i + 1]]))]
    ELSE [raised |-> NoException, value |-> None]

\* The body of get_room_name, from the document find_one returned
room_name_of(room) ==
    IF "_id" \notin DOMAIN room
    THEN [raised |-> "TypeError", value |-> None]    \* "name" in None
    ELSE IF "name" \in DOMAIN room
    THEN [raised |-> NoException, value |-> Str(room.name)]
    ELSE IF "t" \notin DOMAIN room
    THEN [raised |-> "KeyError", value |-> None]
    ELSE IF room.t = "d"
    THEN IF "usernames" \notin DOMAIN room
         THEN [raised |-> "KeyError", value |-> None]
         ELSE [raised |-> NoException,
               value |-> Str(join("_x_", room.usernames))]
    ELSE [raised |-> NoException, value |-> None]    \* falls off the end

\* get_room_name without the look in the cache: every call queries
get_room_name_uncached(cache, room_id) ==
    LET body == room_name_of(find_one(room_id))
    IN  IF body.raised # NoException
        THEN Raised(body.raised, cache, <<room_id>>)
        ELSE Returned(body.value,
                      CachePut(cache, room_id, body.value, room_cache_size),
                      <<room_id>>)

\* @cachedmethod(room_cache): a hit returns the cached value and sends no
\* query; a miss runs the body and stores what it returns
get_room_name(cache, room_id) ==
    IF room_id \in CacheKeys(cache)
    THEN Returned(CacheValue(cache, room_id), CacheTouch(cache, room_id), <<>>)
    ELSE LET body == room_name_of(find_one(room_id))
         IN  IF body.raised # NoException
             THEN Raised(body.raised, cache, <<room_id>>)
             ELSE Returned(body.value,
                           CachePut(cache, room_id, body.value, room_cache_size),
                           <<room_id>>)

\* @cachedmethod(message_cache): the body is "pass", it returns None
get_message_room_and_editor(cache, message_id) ==
    IF message_id \in CacheKeys(cache)
    THEN Returned(CacheValue(cache, message_id),
                  CacheTouch(cache, message_id), <<>>)
    ELSE Returned(None,
                  CachePut(cache, message_id, None, message_cache_size), <<>>)

---------------------------------------------------------------------------
(* AuditHandler: the calls, as records. *)

on_message(room_id, room_name, ts, username, msg) ==
    [call |-> "on_message", room_id |-> room_id, room_name |-> room_name,
     ts |-> ts, username |-> username, msg |-> msg]

on_file(room_id, room_name, ts, username, title, file_id, image_type) ==
    [call |-> "on_file", room_id |-> room_id, room_name |-> room_name,
     ts |-> ts, username |-> username, title |-> title,
     file_id |-> file_id, image_type |-> image_type]

---------------------------------------------------------------------------
(* Auditor._parse.  Its result: the exception it raised (NoException when  *)
(* it returned), the handler calls it made, the three caches afterwards,   *)
(* its calls of get_room_name, the find_one queries it sent and the uses it *)
(* made of the caches.                                                     *)

Outcome(raised, calls, rc, mrc, mc, resolved, lookups, used) ==
    [raised |-> raised, calls |-> calls, room_cache |-> rc,
     rc_message_cache |-> mrc, message_cache |-> mc,
     resolved |-> resolved, lookups |-> lookups, uses |-> used]

\* c[k] or c[k] = v, on the cache named c
Use(c, k) == [cache |-> c, key |-> k]

\* the use get_room_name made of the room cache: the read of a hit or the
\* store of a miss; none when the body raised
RoomUse(room_id, r) ==
    IF r.raised = NoException THEN <<Use("room_cache", room_id)>> ELSE <<>>

\* A call of get_room_name, as _parse saw it
Resolution(room_id, r) ==
    [room_id |-> room_id, raised |-> r.raised, value |-> r.value]

\* d['a']['b'] raises KeyError
Missing2(d, a, b) == a \notin DOMAIN d \/ b \notin DOMAIN d[a]

\* the handler call of the first branch (line 76)
insert_event(o, room_name) ==
    on_message(o.rid, room_name, str(o.ts), o.u.username, o.msg)

\* the handler call of the second branch (line 86)
update_event(s, rid, room_name, edited_by) ==
    on_message(rid, room_name, str(s.editedAt), edited_by, s.msg)

\* the handler call of the third branch (lines 92-93)
file_event(o, room_name, title) ==
    on_file(o.rid, room_name, str(o.ts), o.u.username, title, o.file._id,
            o.attachments[1].image_type)

\* insert a new message (the body of the first branch)
parse_insert(doc, rc, mrc, mc) ==
    LET o == doc.o IN
    IF "rid" \notin DOMAIN o
    THEN Outcome("KeyError", <<>>, rc, mrc, mc, <<>>, <<>>, <<>>)
    ELSE
    LET r == get_room_name(rc, o.rid) IN
    IF r.raised # NoException
    THEN Outcome(r.raised, <<>>, r.cache, mrc, mc,
                 <<Resolution(o.rid, r)>>, r.lookups, RoomUse(o.rid, r))
    ELSE IF "ts" \notin DOMAIN o \/ Missing2(o, "u", "username")
    THEN Outcome("KeyError", <<>>, r.cache, mrc, mc,
                 <<Resolution(o.rid, r)>>, r.lookups, RoomUse(o.rid, r))
    ELSE Outcome(NoException,
                 <<insert_event(o, r.value)>>,
                 r.cache, mrc, mc, <<Resolution(o.rid, r)>>, r.lookups,
                 RoomUse(o.rid, r))

\* update an existing message (the body of the second branch)
parse_update(doc, rc, mrc, mc) ==
    LET o == doc.o IN
    IF "$set" \notin DOMAIN o \/ Missing2(doc, "o2", "_id")
    THEN Outcome("KeyError", <<>>, rc, mrc, mc, <<>>, <<>>, <<>>)
    ELSE
    LET s == o["$set"]
        msg_id == doc.o2._id
        m == get_message_room_and_editor(mrc, msg_id)
        looked == <<Use("rc_message_cache", msg_id)>>
    IN
    \* rid, room_name, edited_by = ...: the value must be a 3-tuple
    IF IsNone(m.value)
    THEN Outcome("TypeError", <<>>, rc, m.cache, mc, <<>>, <<>>, looked)
    ELSE IF Len(m.value.v) # 3
    THEN Outcome("ValueError", <<>>, rc, m.cache, mc, <<>>, <<>>, looked)
    ELSE IF "editedBy" \in DOMAIN s /\ "username" \notin DOMAIN s.editedBy
    THEN Outcome("KeyError", <<>>, rc, m.cache, mc, <<>>, <<>>, looked)
    ELSE
    LET rid == m.value.v[1]
        edited_by == IF "editedBy" \in DOMAIN s THEN s.editedBy.username
                     ELSE m.value.v[3]
        mc2 == CachePut(mc, msg_id, Tuple(<<rid, edited_by>>),
                        message_cache_size)
        stored == looked \o <<Use("message_cache", msg_id)>>
    IN
    IF "rid" \notin DOMAIN o
    THEN Outcome("KeyError", <<>>, rc, m.cache, mc2, <<>>, <<>>, stored)
    ELSE
    LET r == get_room_name(rc, o.rid) IN
    IF r.raised # NoException
    THEN Outcome(r.raised, <<>>, r.cache, m.cache, mc2,
                 <<Resolution(o.rid, r)>>, r.lookups, stored \o RoomUse(o.rid, r))
    ELSE IF "editedAt" \notin DOMAIN s \/ "msg" \notin DOMAIN s
    THEN Outcome("KeyError", <<>>, r.cache, m.cache, mc2,
                 <<Resolution(o.rid, r)>>, r.lookups, stored \o RoomUse(o.rid, r))
    ELSE Outcome(NoException,
                 <<update_event(s, rid, r.value, edited_by)>>,
                 r.cache, m.cache, mc2, <<Resolution(o.rid, r)>>, r.lookups,
                 stored \o RoomUse(o.rid, r))

\* upload a file attachment (the body of the third branch)
parse_file(doc, rc, mrc, mc) ==
    LET o == doc.o IN
    IF Len(o.attachments) = 0
    THEN Outcome("IndexError", <<>>, rc, mrc, mc, <<>>, <<>>, <<>>)
    ELSE IF "title" \notin DOMAIN o.attachments[1] \/ "rid" \notin DOMAIN o
    THEN Outcome("KeyError", <<>>, rc, mrc, mc, <<>>, <<>>, <<>>)
    ELSE
    LET title == o.attachments[1].title
        r == get_room_name(rc, o.rid)
    IN
    IF r.raised # NoException
    THEN Outcome(r.raised, <<>>, r.cache, mrc, mc,
                 <<Resolution(o.rid, r)>>, r.lookups, RoomUse(o.rid, r))
    ELSE IF \/ "ts" \notin DOMAIN o
            \/ Missing2(o, "u", "username")
            \/ Missing2(o, "file", "_id")
            \/ "image_type" \notin DOMAIN o.attachments[1]
    THEN Outcome("KeyError", <<>>, r.cache, mrc, mc,
                 <<Resolution(o.rid, r)>>, r.lookups, RoomUse(o.rid, r))
    ELSE Outcome(NoException,
                 <<file_event(o, r.value, title)>>,
                 r.cache, mrc, mc, <<Resolution(o.rid, r)>>, r.lookups,
                 RoomUse(o.rid, r))

\* o.get('msg', False), as a condition
get_msg(o) == "msg" \in DOMAIN o /\ o.msg # ""

\* branch with the attachments looked at first
branch_attachments_first(doc) ==
    IF endswith(doc.ns, rocketchat_message) /\ "attachments" \in DOMAIN doc.o
    THEN "file"
    ELSE IF doc.op = "i" /\ endswith(doc.ns, rocketchat_message) /\ get_msg(doc.o)
    THEN "insert"
    ELSE IF doc.op = "u" /\ endswith(doc.ns, rocketchat_message)
    THEN "update"
    ELSE "ignored"

\* The branch _parse takes
branch(doc) ==
    IF doc.op = "i" /\ endswith(doc.ns, rocketchat_message) /\ get_msg(doc.o)
    THEN "insert"
    ELSE IF doc.op = "u" /\ endswith(doc.ns, rocketchat_message)
    THEN "update"
    ELSE IF endswith(doc.ns, rocketchat_message) /\ "attachments" \in DOMAIN doc.o
    THEN "file"
    ELSE "ignored"

\* _parse with "if" for the "elif" of the third branch: an entry with an
\* attachments list is handled as a file upload as well
_parse_file_also(doc, rc, mrc, mc) ==
    LET first ==
            CASE branch(doc) = "insert" -> parse_insert(doc, rc, mrc, mc)
              [] branch(doc) = "update" -> parse_update(doc, rc, mrc, mc)
              [] OTHER -> Outcome(NoException, <<>>, rc, mrc, mc, <<>>, <<>>,
                                  <<>>)
    IN  IF /\ first.raised = NoException
           /\ endswith(doc.ns, rocketchat_message)
           /\ "attachments" \in DOMAIN doc.o
        THEN LET second == parse_file(doc, first.room_cache,
                                      first.rc_message_cache,
                                      first.message_cache)
             IN  Outcome(second.raised, first.calls \o second.calls,
                         second.room_cache, second.rc_message_cache,
                         second.message_cache,
                         first.resolved \o second.resolved,
                         first.lookups \o second.lookups,
                         first.uses \o second.uses)
        ELSE first

_parse(doc, rc, mrc, mc) ==
    CASE branch(doc) = "insert" -> parse_insert(doc, rc, mrc, mc)
      [] branch(doc) = "update" -> parse_update(doc, rc, mrc, mc)
      [] branch(doc) = "file" -> parse_file(doc, rc, mrc, mc)
      [] OTHER -> Outcome(NoException, <<>>, rc, mrc, mc, <<>>, <<>>, <<>>)

---------------------------------------------------------------------------
(* The oplog entries Rocket.Chat writes (every field but ts). *)

MessageNs == <<"rocketchat", "rocketchat_message">>
UsersNs == <<"rocketchat", "users">>

Attachment(title, image_type) == [title |-> title, image_type |-> image_type]

\* a message with text
InsertDoc(id, rid, ts, username, msg) ==
    [op |-> "i", ns |-> MessageNs,
     o |-> [_id |-> id, rid |-> rid, ts |-> ts,
            u |-> [username |-> username], msg |-> msg]]

\* a file upload: the text is empty unless the upload carries a caption
FileDoc(id, rid, ts, username, msg, attachments) ==
    [op |-> "i", ns |-> MessageNs,
     o |-> [_id |-> id, rid |-> rid, ts |-> ts,
            u |-> [username |-> username], msg |-> msg,
            file |-> [_id |-> "F1"], attachments |-> attachments]]

\* an edit: the oplog holds the changed fields only
UpdateDoc(id, delta) ==
    [op |-> "u", ns |-> MessageNs, o |-> ("$set" :> delta),
     o2 |-> [_id |-> id]]

I_general == InsertDoc("m1", "GENERAL", 1, "alice", "hello")
I_dm1 == InsertDoc("m2", "dm1", 2, "bob", "hi")
I_dm2 == InsertDoc("m3", "dm2", 2, "carol", "hey")
I_livechat == InsertDoc("m4", "lc1", 3, "guest", "help")
I_gone == InsertDoc("m5", "gone", 3, "alice", "bye")
I_caption ==
    FileDoc("m6", "GENERAL", 4, "alice", "caption",
            <<Attachment("foo.png", "image/png")>>)
F_image == FileDoc("m7", "dm1", 4, "bob", "", <<Attachment("foo.png", "image/png")>>)
F_pdf == FileDoc("m8", "dm1", 4, "bob", "", <<[title |-> "a.pdf"]>>)
F_gone == FileDoc("m10", "gone", 4, "bob", "", <<Attachment("b.png", "image/png")>>)
U_editor ==
    UpdateDoc("m1", [msg |-> "hello2", editedAt |-> 2,
                     editedBy |-> [username |-> "carol"]])
U_plain == UpdateDoc("m1", [msg |-> "hello3", editedAt |-> 3])
U_reaction == UpdateDoc("m1", [reactions |-> "thumbsup"])
\* an update that replaces the document, attachments included
U_replace ==
    [op |-> "u", ns |-> MessageNs,
     o |-> [_id |-> "m7", rid |-> "dm1", ts |-> 4, u |-> [username |-> "bob"],
            msg |-> "", file |-> [_id |-> "F1"],
            attachments |-> <<Attachment("foo.png", "image/png")>>],
     o2 |-> [_id |-> "m7"]]
X_user == [op |-> "i", ns |-> UsersNs, o |-> [_id |-> "u1", username |-> "dave"]]
X_system == InsertDoc("m9", "GENERAL", 1, "alice", "")
X_delete == [op |-> "d", ns |-> MessageNs, o |-> [_id |-> "m1"]]
\* the entry a replica set writes when it is initiated
Noop == [op |-> "n", ns |-> <<>>, o |-> [msg |-> "initiating set"]]

Docs ==
    { I_general, I_dm1, I_dm2, I_livechat, I_gone, I_caption, F_image, F_pdf,
      F_gone, U_editor, U_plain, U_reaction, U_replace, X_user, X_system, X_delete }

---------------------------------------------------------------------------
(* The state after main has built its objects (lines 184-188). *)

NoParse ==
    [doc |-> None, raised |-> NoException, calls |-> <<>>, resolved |-> <<>>,
     lookups |-> <<>>, room_cache |-> <<>>, rc_message_cache |-> <<>>,
     message_cache |-> <<>>]

\* The oplog of a replica set holds at least the entry of its initiation;
\* without replication it is empty, and stays empty
Init ==
    /\ oplog \in {<<>>, <<Noop @@ [ts |-> 1]>>}
    /\ pc = "try"
    /\ resume_ts = 0
    /\ cursor_pos = 0
    /\ room_cache = <<>>
    /\ rc_message_cache = <<>>
    /\ message_cache = <<>>
    /\ handler_calls = <<>>
    /\ last = NoParse
    /\ parsed = <<>>
    /\ prev_attempt = "none"
    /\ sleeps = 0
    /\ uses = <<>>

---------------------------------------------------------------------------
(* Rocket.Chat writes an entry to the oplog; ts is its place in the log. *)

OplogAppend(d) ==
    /\ oplog # <<>>
    /\ Len(oplog) - 1 < MaxOplog
    /\ oplog' = Append(oplog, d @@ [ts |-> Len(oplog) + 1])
    /\ UNCHANGED <<pc, resume_ts, cursor_pos, room_cache, rc_message_cache,
                   message_cache, handler_calls, last, parsed, prev_attempt,
                   sleeps, uses>>

---------------------------------------------------------------------------
(* Auditor.tail_latest and Auditor.tail. *)

\* how many entries tail_latest asks for
Lookback == 10

\* latest_batch sorted the other way: oldest first
latest_batch_ascending ==
    LET n == IF Len(oplog) < Lookback THEN Len(oplog) ELSE Lookback
    IN  [i \in 1..n |-> oplog[Len(oplog) - n + i]]

\* oplog.find().sort('$natural', DESCENDING).limit(-10): newest first
latest_batch ==
    LET n == IF Len(oplog) < Lookback THEN Len(oplog) ELSE Lookback
    IN  [i \in 1..n |-> oplog[Len(oplog) - i + 1]]

\* TailLatest of a tailer that starts every run at the origin of the oplog
TailLatest_from_origin ==
    /\ pc = "try"
    /\ IF Len(latest_batch) = 0
       THEN /\ pc' = "except"
            /\ prev_attempt' = "raised"
            /\ sleeps' = 0
            /\ UNCHANGED <<resume_ts, cursor_pos>>
       ELSE /\ pc' = "tail"
            /\ resume_ts' = 0
            /\ cursor_pos' = 0
            /\ UNCHANGED <<prev_attempt, sleeps>>
    /\ UNCHANGED <<oplog, room_cache, rc_message_cache, message_cache,
                   handler_calls, last, parsed, uses>>

\* tail_latest up to the cursor of tail: .next() takes the first entry of the
\* batch and raises StopIteration when the oplog is empty
TailLatest ==
    /\ pc = "try"
    /\ IF Len(latest_batch) = 0
       THEN /\ pc' = "except"
            /\ prev_attempt' = "raised"
            /\ sleeps' = 0
            /\ UNCHANGED <<resume_ts, cursor_pos>>
       ELSE /\ pc' = "tail"
            /\ resume_ts' = latest_batch[1].ts
            /\ cursor_pos' = latest_batch[1].ts
            /\ UNCHANGED <<prev_attempt, sleeps>>
    /\ UNCHANGED <<oplog, room_cache, rc_message_cache, message_cache,
                   handler_calls, last, parsed, uses>>

\* the entries the cursor of tail has still to return: {'ts': {'$gt': ts}}
Pending == {i \in 1..Len(oplog) : oplog[i].ts > cursor_pos}

\* TailDeliver with a handler that gets the calls of an entry ahead of those
\* of the entries before it
TailDeliver_calls_ahead ==
    /\ pc = "tail"
    /\ Pending # {}
    /\ LET i == CHOOSE j \in Pending : \A k \in Pending : j <= k
           doc == oplog[i]
           out == _parse(doc, room_cache, rc_message_cache, message_cache)
       IN  /\ cursor_pos' = doc.ts
           /\ room_cache' = out.room_cache
           /\ rc_message_cache' = out.rc_message_cache
           /\ message_cache' = out.message_cache
           /\ handler_calls' = out.calls \o handler_calls
           /\ last' = [doc |-> doc, raised |-> out.raised, calls |-> out.calls,
                       resolved |-> out.resolved, lookups |-> out.lookups,
                       room_cache |-> room_cache,
                       rc_message_cache |-> rc_message_cache,
                       message_cache |-> message_cache]
           /\ parsed' = Append(parsed, doc)
           /\ uses' = uses \o out.uses
           /\ IF out.raised # NoException
              THEN pc' = "except" /\ prev_attempt' = "raised" /\ sleeps' = 0
              ELSE UNCHANGED <<pc, prev_attempt, sleeps>>
    /\ UNCHANGED <<oplog, resume_ts>>

\* one round of "for doc in cursor: self._parse(doc)"
TailDeliver ==
    /\ pc = "tail"
    /\ Pending # {}
    /\ LET i == CHOOSE j \in Pending : \A k \in Pending : j <= k
           doc == oplog[i]
           out == _parse(doc, room_cache, rc_message_cache, message_cache)
       IN  /\ cursor_pos' = doc.ts
           /\ room_cache' = out.room_cache
           /\ rc_message_cache' = out.rc_message_cache
           /\ message_cache' = out.message_cache
           /\ handler_calls' = handler_calls \o out.calls
           /\ last' = [doc |-> doc, raised |-> out.raised, calls |-> out.calls,
                       resolved |-> out.resolved, lookups |-> out.lookups,
                       room_cache |-> room_cache,
                       rc_message_cache |-> rc_message_cache,
                       message_cache |-> message_cache]
           /\ parsed' = Append(parsed, doc)
           /\ uses' = uses \o out.uses
           /\ IF out.raised # NoException
              THEN pc' = "except" /\ prev_attempt' = "raised" /\ sleeps' = 0
              ELSE UNCHANGED <<pc, prev_attempt, sleeps>>
    /\ UNCHANGED <<oplog, resume_ts>>

\* cursor.alive turns false: tail, and tail_latest, return
CursorDies ==
    /\ pc = "tail"
    /\ pc' = "sleep"
    /\ prev_attempt' = "returned"
    /\ sleeps' = 0
    /\ UNCHANGED <<oplog, resume_ts, cursor_pos, room_cache, rc_message_cache,
                   message_cache, handler_calls, last, parsed, uses>>

\* the connection fails: find or the cursor raises
TailRaises ==
    /\ pc \in {"try", "tail"}
    /\ pc' = "except"
    /\ prev_attempt' = "raised"
    /\ sleeps' = 0
    /\ UNCHANGED <<oplog, resume_ts, cursor_pos, room_cache, rc_message_cache,
                   message_cache, handler_calls, last, parsed, uses>>

---------------------------------------------------------------------------
(* The loop of main (lines 190-195). *)

\* time.sleep(1), after tail_latest returned
Sleep ==
    /\ pc = "sleep"
    /\ pc' = "try"
    /\ sleeps' = sleeps + 1
    /\ UNCHANGED <<oplog, resume_ts, cursor_pos, room_cache, rc_message_cache,
                   message_cache, handler_calls, last, parsed, prev_attempt,
                   uses>>

\* Except of a main that retries after a failure of the connection only:
\* an exception raised by _parse is not caught
Except_connectivity_only ==
    /\ pc = "except"
    /\ last.raised = NoException
    /\ pc' = "try"
    /\ UNCHANGED <<oplog, resume_ts, cursor_pos, room_cache, rc_message_cache,
                   message_cache, handler_calls, last, parsed, prev_attempt,
                   sleeps, uses>>

\* except Exception, e: traceback.print_exc(e)
Except ==
    /\ pc = "except"
    /\ pc' = "try"
    /\ UNCHANGED <<oplog, resume_ts, cursor_pos, room_cache, rc_message_cache,
                   message_cache, handler_calls, last, parsed, prev_attempt,
                   sleeps, uses>>

Append1 == \E d \in Docs : OplogAppend(d)

Next ==
    \/ Append1
    \/ TailLatest
    \/ TailDeliver
    \/ CursorDies
    \/ TailRaises
    \/ Sleep
    \/ Except

Spec == Init /\ [][Next]_vars

---------------------------------------------------------------------------
(* The caches on their own: the two cached methods and the store of line   *)
(* 84, called with any key in any order.                                   *)

\* cache operations in one behaviour
MaxUses == 4

RoomIds == {r._id : r \in rooms} \cup {"gone"}
MessageIds == {"m1", "m2", "m3"}

\* self.rocketchat.get_room_name(room_id)
GetRoomName(room_id) ==
    /\ Len(uses) < MaxUses
    /\ LET r == get_room_name(room_cache, room_id)
       IN  /\ room_cache' = r.cache
           /\ uses' = uses \o RoomUse(room_id, r)
    /\ UNCHANGED <<oplog, pc, resume_ts, cursor_pos, rc_message_cache,
                   message_cache, handler_calls, last, parsed, prev_attempt,
                   sleeps>>

\* self.rocketchat.get_message_room_and_editor(msg_id)
GetMessageRoomAndEditor(msg_id) ==
    /\ Len(uses) < MaxUses
    /\ LET r == get_message_room_and_editor(rc_message_cache, msg_id)
       IN  /\ rc_message_cache' = r.cache
           /\ uses' = Append(uses, Use("rc_message_cache", msg_id))
    /\ UNCHANGED <<oplog, pc, resume_ts, cursor_pos, room_cache,
                   message_cache, handler_calls, last, parsed, prev_attempt,
                   sleeps>>

\* self.message_cache[msg_id] = (rid, edited_by)
StoreEditContext(msg_id, rid, edited_by) ==
    /\ Len(uses) < MaxUses
    /\ message_cache' = CachePut(message_cache, msg_id,
                                 Tuple(<<rid, edited_by>>), message_cache_size)
    /\ uses' = Append(uses, Use("message_cache", msg_id))
    /\ UNCHANGED <<oplog, pc, resume_ts, cursor_pos, room_cache,
                   rc_message_cache, handler_calls, last, parsed, prev_attempt,
                   sleeps>>

GetRoomName1 == \E room_id \in RoomIds : GetRoomName(room_id)

GetMessageRoomAndEditor1 ==
    \E msg_id \in MessageIds : GetMessageRoomAndEditor(msg_id)

StoreEditContext1 ==
    \E msg_id \in MessageIds : StoreEditContext(msg_id, "GENERAL", "carol")

CacheNext ==
    \/ GetRoomName1
    \/ GetMessageRoomAndEditor1
    \/ StoreEditContext1

CacheSpec == Init /\ [][CacheNext]_vars

---------------------------------------------------------------------------
(* What the claims speak of.  The caches change only inside _parse, so     *)
(* between two invocations the variables hold the state the last one left, *)
(* and last holds the entry, the caches before it and what it did.         *)

\* _parse has run
Parsed == "op" \in DOMAIN last.doc

\* an insert into the messages collection with a non-empty text (rule 1)
IsTextInsert(doc) ==
    /\ doc.op = "i"
    /\ doc.ns = MessageNs
    /\ "msg" \in DOMAIN doc.o
    /\ doc.o.msg # ""

\* an update to the messages collection (rule 2)
IsUpdate(doc) == doc.op = "u" /\ doc.ns = MessageNs

\* an update whose delta holds the new text and the time of the edit
IsEdit(doc) ==
    /\ IsUpdate(doc)
    /\ "$set" \in DOMAIN doc.o
    /\ {"msg", "editedAt"} \subseteq DOMAIN doc.o["$set"]

\* an entry on the messages collection whose payload holds an attachments
\* list, with the fields a file event is made of
IsFileEntry(doc) ==
    /\ doc.ns = MessageNs
    /\ {"attachments", "rid", "ts", "u", "file"} \subseteq DOMAIN doc.o
    /\ Len(doc.o.attachments) > 0
    /\ {"title", "image_type"} \subseteq DOMAIN doc.o.attachments[1]

\* get_room_name(room_id) returns in the state the last _parse began in: the
\* room is cached or the collection holds its document
Resolves(room_id) ==
    \/ room_id \in CacheKeys(last.room_cache)
    \/ \E r \in rooms : r._id = room_id

\* the last _parse made exactly one call, on_message, with these arguments
OneMessage(room_id, ts, username, msg) ==
    /\ Len(last.calls) = 1
    /\ last.calls[1].call = "on_message"
    /\ last.calls[1].room_id = room_id
    /\ last.calls[1].ts = ts
    /\ last.calls[1].username = username
    /\ last.calls[1].msg = msg

\* C1, as stated: every insert of a message M with a non-empty text T into
\* room R by user U at ts makes _parse call on_message exactly once, with R,
\* ts, U and T, and on_file never.
C1_EveryTextInsertEmits ==
    Parsed /\ IsTextInsert(last.doc) =>
        OneMessage(last.doc.o.rid, str(last.doc.o.ts),
                   last.doc.o.u.username, last.doc.o.msg)

\* C1, what the code does: the call is made when get_room_name(R) returns (R
\* is cached or the room collection holds R); when the resolution raises,
\* _parse raises and calls neither on_message nor on_file.
C1_TextInsertEmitsWhenRoomResolves ==
    Parsed /\ IsTextInsert(last.doc) =>
        IF Resolves(last.doc.o.rid)
        THEN /\ last.raised = NoException
             /\ OneMessage(last.doc.o.rid, str(last.doc.o.ts),
                           last.doc.o.u.username, last.doc.o.msg)
        ELSE last.raised # NoException /\ last.calls = <<>>

\* C2, as stated: after _parse of an insert of message M with a non-empty
\* text into room R, the edit-context cache (Auditor.message_cache) holds an
\* entry for M whose room is R and whose editor is the unknown editor.
C2_InsertWritesEditContext ==
    Parsed /\ IsTextInsert(last.doc) /\ last.raised = NoException =>
        /\ last.doc.o._id \in CacheKeys(message_cache)
        /\ CacheValue(message_cache, last.doc.o._id).v[1] = last.doc.o.rid
        /\ CacheValue(message_cache, last.doc.o._id).v[2] = "unknown.user"

\* C3, as stated: an update (new text, no editor field) of a message that no
\* cache holds does not fail: _parse calls on_message exactly once with room
\* '#unknown', user 'unknown.user', the time and the text of the update.
C3_EditOfUnseenMessageFallsBack ==
    /\ Parsed
    /\ IsEdit(last.doc)
    /\ "editedBy" \notin DOMAIN last.doc.o["$set"]
    /\ last.doc.o2._id \notin CacheKeys(last.message_cache)
    /\ last.doc.o2._id \notin CacheKeys(last.rc_message_cache)
    => /\ last.raised = NoException
       /\ OneMessage("#unknown", str(last.doc.o["$set"].editedAt),
                     "unknown.user", last.doc.o["$set"].msg)

\* C4, as stated: when the insert of M (room R, user U) is followed at once
\* by an update of M with a new text T2 and no editor field, the update makes
\* _parse call on_message exactly once with R, the time of the edit, U and T2.
C4_EditAfterInsertUsesCachedContext ==
    LET n == Len(parsed) IN
    /\ n >= 2
    /\ IsTextInsert(parsed[n - 1])
    /\ IsEdit(parsed[n])
    /\ "editedBy" \notin DOMAIN parsed[n].o["$set"]
    /\ parsed[n].o2._id = parsed[n - 1].o._id
    => /\ last.raised = NoException
       /\ OneMessage(parsed[n - 1].o.rid, str(parsed[n].o["$set"].editedAt),
                     parsed[n - 1].o.u.username, parsed[n].o["$set"].msg)

\* C5, as stated: an update of M whose delta holds the editor E is emitted
\* with username E, and the cache entry of M has the editor E afterwards.
C5_ExplicitEditorIsEmittedAndCached ==
    Parsed /\ IsEdit(last.doc) /\ "editedBy" \in DOMAIN last.doc.o["$set"] =>
        /\ Len(last.calls) = 1
        /\ last.calls[1].call = "on_message"
        /\ last.calls[1].username = last.doc.o["$set"].editedBy.username
        /\ last.doc.o2._id \in CacheKeys(message_cache)
        /\ CacheValue(message_cache, last.doc.o2._id).v[2]
               = last.doc.o["$set"].editedBy.username

\* the last _parse made exactly one call, on_file, from the fields of o
OneFile(o) ==
    /\ Len(last.calls) = 1
    /\ last.calls[1].call = "on_file"
    /\ last.calls[1].room_id = o.rid
    /\ last.calls[1].ts = str(o.ts)
    /\ last.calls[1].username = o.u.username
    /\ last.calls[1].title = o.attachments[1].title
    /\ last.calls[1].file_id = o.file._id
    /\ last.calls[1].image_type = o.attachments[1].image_type

\* C6, as stated: every entry on the messages collection whose payload holds
\* an attachments list makes _parse call on_file exactly once, with the room,
\* the time and the user of the payload, the title and the media type of the
\* first attachment and the file identity, and on_message never.  (Stated for
\* the entries the third branch is for: those that are neither an insert with
\* a non-empty text nor an update, which C7 is about.)
C6_EveryAttachmentEntryEmitsFile ==
    /\ Parsed
    /\ IsFileEntry(last.doc)
    /\ ~IsTextInsert(last.doc)
    /\ ~IsUpdate(last.doc)
    => OneFile(last.doc.o)

\* C6, what the code does: the call is made when get_room_name of the room
\* returns; when the resolution raises, _parse raises and calls nothing.
C6_AttachmentEntryEmitsFileWhenRoomResolves ==
    /\ Parsed
    /\ IsFileEntry(last.doc)
    /\ ~IsTextInsert(last.doc)
    /\ ~IsUpdate(last.doc)
    => IF Resolves(last.doc.o.rid)
       THEN last.raised = NoException /\ OneFile(last.doc.o)
       ELSE last.raised # NoException /\ last.calls = <<>>

\* C7, as stated: an entry on the messages collection that holds an
\* attachments list and is also an insert with a non-empty text or an update
\* is emitted as a file upload (on_file), not as a message.
C7_AttachmentsTakePrecedence ==
    /\ Parsed
    /\ IsFileEntry(last.doc)
    /\ IsTextInsert(last.doc) \/ IsUpdate(last.doc)
    => OneFile(last.doc.o)

\* C7, amended: the insert and the update rule take precedence over the
\* attachments: for such an entry on_file is never called, and one that is an
\* insert with a non-empty text is emitted as a message (once its room
\* resolves), the text being the text of the payload.
C7_InsertAndUpdateTakePrecedence ==
    /\ Parsed
    /\ IsFileEntry(last.doc)
    /\ IsTextInsert(last.doc) \/ IsUpdate(last.doc)
    => /\ \A i \in 1..Len(last.calls) : last.calls[i].call # "on_file"
       /\ IsTextInsert(last.doc) /\ Resolves(last.doc.o.rid) =>
              OneMessage(last.doc.o.rid, str(last.doc.o.ts),
                         last.doc.o.u.username, last.doc.o.msg)

\* C7, witness: an insert with a text and an attachments list was emitted as
\* a message
C7_Witness ==
    /\ Parsed
    /\ IsFileEntry(last.doc)
    /\ IsTextInsert(last.doc)
    /\ OneMessage("GENERAL", "4", "alice", "caption")

\* C8, as stated: when tail_latest raises, exactly one time.sleep takes place
\* before main calls tail_latest again.
C8_FailureIsFollowedByOneSleep ==
    pc = "try" /\ prev_attempt = "raised" => sleeps = 1

\* C9: from the room document it queried, get_room_name returns the name of
\* a room whose document has a name, and for a direct message without a name
\* the usernames joined with '_x_' in the order the document holds them.
C9_RoomNameFromDocument ==
    \A i \in 1..Len(last.resolved) :
        LET res == last.resolved[i] IN
        last.lookups = <<res.room_id>> =>
        /\ \A r \in rooms :
               r._id = res.room_id /\ "name" \in DOMAIN r =>
                   res.raised = NoException /\ res.value = Str(r.name)
        /\ res.room_id = "GENERAL" => res.value = Str("general")
        /\ res.room_id = "dm1" =>
               res.raised = NoException /\ res.value = Str("alice_x_bob")
        /\ res.room_id = "dm2" =>
               res.raised = NoException
               /\ res.value = Str("bob_x_alice_x_carol")

\* C9, witness: the direct message of alice and bob was queried and named
C9_Witness ==
    /\ Len(last.resolved) = 1
    /\ last.resolved[1].room_id = "dm1"
    /\ last.resolved[1].value = Str("alice_x_bob")
    /\ last.lookups = <<"dm1">>

\* C10: get_room_name is read-through.  For a room the room cache holds it
\* sends no query and returns the cached name; otherwise it sends one query,
\* and the name it returns is in the cache when it returns.
C10_RoomCacheIsReadThrough ==
    \A i \in 1..Len(last.resolved) :
        LET res == last.resolved[i] IN
        IF res.room_id \in CacheKeys(last.room_cache)
        THEN /\ last.lookups = <<>>
             /\ res.raised = NoException
             /\ res.value = CacheValue(last.room_cache, res.room_id)
        ELSE /\ last.lookups = <<res.room_id>>
             /\ res.raised = NoException =>
                    /\ res.room_id \in CacheKeys(room_cache)
                    /\ CacheValue(room_cache, res.room_id) = res.value

\* C10, witness: a room the cache held was resolved without a query
C10_Witness ==
    /\ Len(last.resolved) = 1
    /\ last.resolved[1].room_id \in CacheKeys(last.room_cache)
    /\ last.lookups = <<>>
    /\ Len(last.calls) = 1
    /\ last.calls[1].room_name = Str("general")

\* the keys used on the cache named c
UsedKeys(c) == {uses[i].key : i \in {j \in 1..Len(uses) : uses[j].cache = c}}

\* the place in uses of the last use of k on c
LastUse(c, k) ==
    CHOOSE i \in 1..Len(uses) :
        /\ uses[i] = Use(c, k)
        /\ \A j \in (i + 1)..Len(uses) : uses[j] # Use(c, k)

\* the keys used on c after the last use of k
UsedSince(c, k) ==
    {uses[j].key : j \in {i \in (LastUse(c, k) + 1)..Len(uses) :
                              uses[i].cache = c}}

\* the n most recently used keys of c
MostRecent(c, n) == {k \in UsedKeys(c) : Cardinality(UsedSince(c, k)) < n}

\* the cache holds at most maxsize entries, one per key, and its keys are the
\* maxsize most recently used ones
HoldsMostRecent(cache, c, maxsize) ==
    /\ Len(cache) <= maxsize
    /\ Cardinality(CacheKeys(cache)) = Len(cache)
    /\ CacheKeys(cache) = MostRecent(c, maxsize)

After(t) == {i \in 1..Len(oplog) : oplog[i].ts > t}

\* the entries _parse was called on, as a set
Delivered == {parsed[i] : i \in 1..Len(parsed)}

\* tail_latest has found its resume point and opens the cursor of tail
Resumes == pc = "try" /\ pc' = "tail"

MatchesNoRule(doc) ==
    /\ ~IsTextInsert(doc)
    /\ ~IsUpdate(doc)
    /\ ~(doc.ns = MessageNs /\ "attachments" \in DOMAIN doc.o)

\* an update to the messages collection whose delta lacks the text or the
\* time of the edit
IsMalformedUpdate(doc) == IsUpdate(doc) /\ ~IsEdit(doc)

\* the last _parse returned, called nothing and left the edit contexts alone
Ignored ==
    /\ last.raised = NoException
    /\ last.calls = <<>>
    /\ message_cache = last.message_cache

\* C13, as stated: on an entry that matches none of the rules, and on a
\* malformed entry such as an update without text or without edit time,
\* _parse returns normally, calls no handler operation and leaves the
\* edit-context cache unchanged.
C13_UnclassifiableEntryIsIgnored ==
    Parsed /\ (MatchesNoRule(last.doc) \/ IsMalformedUpdate(last.doc))
        => Ignored

\* C13, what the code does: an entry that matches none of the rules is
\* ignored; a malformed update makes _parse raise.
C13_UnmatchedIgnoredMalformedRaises ==
    /\ Parsed /\ MatchesNoRule(last.doc) => Ignored
    /\ Parsed /\ IsMalformedUpdate(last.doc) =>
           last.raised \in {"KeyError", "TypeError"} /\ last.calls = <<>>

\* _parse called on doc in the caches acc holds, its calls added to acc's
ReplayStep(acc, doc) ==
    LET out == _parse(doc, acc.room_cache, acc.rc_message_cache,
                      acc.message_cache)
    IN  [calls |-> acc.calls \o out.calls,
         room_cache |-> out.room_cache,
         rc_message_cache |-> out.rc_message_cache,
         message_cache |-> out.message_cache]

\* what _parse, called on docs one after the other from empty caches, calls
\* on the handler, and the caches it leaves
RECURSIVE Replay(_)
Replay(docs) ==
    IF docs = <<>>
    THEN [calls |-> <<>>, room_cache |-> <<>>, rc_message_cache |-> <<>>,
          message_cache |-> <<>>]
    ELSE ReplayStep(Replay(SubSeq(docs, 1, Len(docs) - 1)), docs[Len(docs)])

\* C14: the entries reach _parse in the order of the log, and the handler has
\* received, in that same order, the calls _parse makes for them one entry
\* after the other: no call comes before a call of an earlier entry.
C14_SinkOrderIsLogOrder ==
    /\ \A i \in 1..Len(parsed) : oplog[parsed[i].ts] = parsed[i]
    /\ \A i, j \in 1..Len(parsed) : i < j => parsed[i].ts < parsed[j].ts
    /\ handler_calls = Replay(parsed).calls

\* C14, witness: one tail run has delivered two entries of different rooms,
\* and the handler received the call of the first before that of the second
C14_Witness ==
    /\ pc = "tail"
    /\ Len(parsed) = 2
    /\ parsed[1].ts > resume_ts
    /\ Len(handler_calls) = 2
    /\ handler_calls[1].room_id = parsed[1].o.rid
    /\ handler_calls[2].room_id = parsed[2].o.rid
    /\ parsed[1].o.rid # parsed[2].o.rid

\* C15, as stated: an edit of M refreshes the edit context of M: afterwards
\* the cache holds an entry for M; when it held one before, the room of the
\* entry is the same as before, and so is the editor unless the delta
\* holds an editor.
C15_EditKeepsRoomOfContext ==
    Parsed /\ IsEdit(last.doc) =>
        LET id == last.doc.o2._id IN
        /\ id \in CacheKeys(message_cache)
        /\ id \in CacheKeys(last.message_cache) =>
               LET old == CacheValue(last.message_cache, id)
                   new == CacheValue(message_cache, id)
               IN  /\ new.v[1] = old.v[1]
                   /\ "editedBy" \notin DOMAIN last.doc.o["$set"] =>
                          new.v[2] = old.v[2]

\* C16, as stated: every on_message call the handler received carries a room
\* that is not null: its room name is a string, also for a room without a
\* name that is not a direct message.
C16_EveryMessageHasRoom ==
    \A i \in 1..Len(handler_calls) :
        handler_calls[i].call = "on_message" =>
            ~IsNone(handler_calls[i].room_name)

\* the last tail_latest ended with an exception, and _parse has raised one
\* that is no failure of the connection (a TypeError, KeyError, IndexError
\* or ValueError) since it last returned
ProgramError == prev_attempt = "raised" /\ last.raised # NoException

\* C17, as stated: a failure that is no connectivity failure is fatal: once
\* it has come out of tail_latest, main is never again about to call
\* tail_latest, tailing or sleeping.
C17_ProgramErrorIsFatal ==
    ProgramError => pc \notin {"try", "tail", "sleep"}

\* C17, amended: main has no fatal state; whatever the exception that came
\* out of tail_latest, the except clause is left for the next tail_latest.
C17_EveryFailureIsRetried ==
    /\ pc \in {"try", "tail", "sleep", "except"}
    /\ pc = "except" => prev_attempt = "raised" /\ ENABLED Except
    /\ ProgramError => pc \in {"except", "try", "tail"}

\* C17, witness: _parse raised TypeError, and tail_latest was called again
\* and is tailing
C17_Witness ==
    /\ ProgramError
    /\ last.raised = "TypeError"
    /\ pc = "tail"
    /\ resume_ts >= last.doc.ts

\* an entry that is classified as a message (created or edited) or as a
\* file upload, with every field its event is made of
IsClassified(doc) ==
    \/ IsTextInsert(doc)
    \/ IsEdit(doc)
    \/ IsFileEntry(doc) /\ ~IsUpdate(doc)

\* C18, as stated: for every entry classified as a message or a file upload
\* _parse calls the handler, whatever the resolution of the room name and
\* the lookup of the edit context do.
C18_ClassifiedEntryReachesSink ==
    Parsed /\ IsClassified(last.doc) => Len(last.calls) = 1

\* C18, what the code does: the handler is called if and only if no
\* collaborator raised; an edit never gets there.
C18_SinkCallOnlyWhenCollaboratorsReturn ==
    Parsed /\ IsClassified(last.doc) =>
        /\ Len(last.calls) = 1 <=> last.raised = NoException
        /\ IsEdit(last.doc) => last.raised = "TypeError"
        /\ ~IsEdit(last.doc) =>
               (last.raised = NoException <=> Resolves(last.doc.o.rid))

\* C19: one invocation of _parse makes at most one call on the handler,
\* on_message or on_file, and an invocation that raised made none; so the
\* handler has received no more calls than _parse has had entries.
C19_AtMostOneSinkCall ==
    /\ Len(last.calls) <= 1
    /\ last.raised # NoException => last.calls = <<>>
    /\ Len(handler_calls) <= Len(parsed)

\* C19, witness: an insert with a text and an attachments list, which two of
\* the rules match, was the first entry to be emitted, with one call
C19_Witness ==
    /\ Parsed
    /\ IsTextInsert(last.doc)
    /\ "attachments" \in DOMAIN last.doc.o
    /\ last.raised = NoException
    /\ Len(last.calls) = 1
    /\ handler_calls = last.calls

\* C20: no entry reaches _parse twice.  An entry handed to _parse has a ts
\* above that of every entry handed to it before, in this run or in an
\* earlier one, and above the resume point of the run; and the resume point
\* tail_latest takes is at or above the ts of every entry the oplog holds at
\* that moment, so none of these is delivered by the new run.
C20_NoEntryDeliveredTwice ==
    [][/\ Resumes => \A i \in 1..Len(oplog) : oplog[i].ts <= resume_ts'
       /\ parsed' # parsed =>
              LET doc == parsed'[Len(parsed')] IN
              /\ Len(parsed') = Len(parsed) + 1
              /\ doc.ts > resume_ts
              /\ \A i \in 1..Len(parsed) : parsed[i].ts < doc.ts]_vars

\* C20, witness: an entry was delivered, tail_latest returned and was called
\* again, and the new run has delivered the one entry written since
C20_Witness ==
    /\ pc = "tail"
    /\ prev_attempt = "returned"
    /\ Len(parsed) = 2
    /\ parsed[1].ts <= resume_ts
    /\ parsed[2].ts > resume_ts
    /\ Pending = {}

=============================================================================
